---------------------------- MODULE Spec2Model ----------------------------
(***************************************************************************)
(* Windows disk diagnostics sensor (src/module.go, lines 1-170: the        *)
(* current revision of the module).                                        *)
(*                                                                         *)
(* One Config, one sensor built from it by NewDisk, two caller goroutines  *)
(* that invoke Readings / DoCommand / Name / Close on the sensor, and the  *)
(* volume the OS reports on, which changes on its own, one figure at a     *)
(* time and any number of times between two queries.  Readings takes no   *)
(* lock, so it is split at its two accesses to shared state: ReadingsLoad  *)
(* is the load of s.cfg.Path and its normalization (line 100),             *)
(* ReadingsQuery the OS query (lines 101-103, the blocking call of line    *)
(* 159), ReadingsReturn the part after it (lines 104-122).  Any other      *)
(* step may run between them.  Logging is not modelled.                    *)
(*                                                                         *)
(* Config.Validate may be called at any time on the Config the sensor      *)
(* shares.  Once the sensor is built, its store to Config.Path (line 37)   *)
(* is unsynchronized with the load of line 100: the store is split in two  *)
(* steps (phase "storing" in between), and a Readings that loads the       *)
(* string meanwhile gets the old value, the new value, or a torn string    *)
(* header (nil data pointer with the new length) whose first use panics.   *)
(*                                                                         *)
(* Strings are sequences of bytes, as len(p) and p[1] see them: "NUL" is   *)
(* the byte 0, which UTF16PtrFromString rejects, "xC3" "xA9" are the two   *)
(* bytes of one non-ASCII character.  uint64 arithmetic is                 *)
(* modelled at a reduced word width (WordBits) with the same wrap-around.  *)
(* A float64 is modelled by the exact ratio it rounds: [num, den], with    *)
(* den = 0 for the results of a division by zero (+Inf, NaN).              *)
(***************************************************************************)
EXTENDS Integers, Sequences, FiniteSets, TLC

VARIABLES
    phase,      \* "raw", "validated" (Validate ran), "built" (NewDisk ran),
                \* "storing" (built, Validate is writing Config.Path), "crashed" (panic)
    cfgPath,    \* Config.Path, shared with the sensor through s.cfg
    sName,      \* s.name
    cancelled,  \* whether s.cancelCtx has been cancelled (s.cancelFunc called)
    vol,        \* what the OS currently reports for the volume
    pc,         \* per caller: "idle", "loaded" (inside Readings, after line 100),
                \* "queried" (inside Readings, after the OS query) or "panicked"
    loc,        \* per caller: the locals of Readings; afterClose is a history
                \* flag the code does not hold: whether cancelCtx was already
                \* cancelled when the call began, kept until the OS query
    ret,        \* per caller: what its last completed call returned
    nhist       \* normalizer runs: <<p, normalize(p), normalize(normalize(p))>>

vars == <<phase, cfgPath, sName, cancelled, vol, pc, loc, ret, nhist>>

\* ------------------------------------------------------------------ bounds
MaxLen == 3
MaxBytes == 2
WordBits == 3

\* --------------------------------------------------------------- constants
Bytes == {"C", ":", "\\", "NUL", "xC3", "xA9"}

Callers == {"g1", "g2"}

Names == {"foo"}

Commands == {"none", "ping"}

NoErr == "nil"

errUnimplemented == "unimplemented"

EINVAL == "EINVAL"

OsErrors == {"ERROR_PATH_NOT_FOUND", "ERROR_ACCESS_DENIED"}

defaultDiskPath == <<"C", ":", "\\">>

Word == 2 ^ WordBits

ByteCounts == {0, 1, MaxBytes}

AvailCounts == {0, MaxBytes}

RECURSIVE SeqsUpTo(_)
SeqsUpTo(n) ==
    IF n = 0 THEN {<<>>}
    ELSE LET shorter == SeqsUpTo(n - 1)
         IN  shorter \cup {Append(s, c) : s \in {x \in shorter : Len(x) = n - 1}, c \in Bytes}

Paths == SeqsUpTo(MaxLen)

ConfigPaths == {<<>>, <<"C">>, <<"C", ":">>, <<"NUL">>}

\* ----------------------------------------------------------------- helpers
normalizeDiskPath_noColonCheck(p) ==
    IF Len(p) = 2 THEN Append(p, "\\")
    ELSE IF Len(p) = 1 THEN p \o <<":", "\\">>
    ELSE p

normalizeDiskPath(p) ==
    IF Len(p) = 2 /\ p[2] = ":" THEN Append(p, "\\")
    ELSE IF Len(p) = 1 THEN p \o <<":", "\\">>
    ELSE p

HasNUL(p) == \E i \in 1 .. Len(p) : p[i] = "NUL"

Sub64_saturating(a, b) == IF b > a THEN 0 ELSE a - b

Sub64(a, b) == (a - b) % Word

Add64(a, b) == (a + b) % Word

RECURSIVE GCD(_, _)
GCD(a, b) == IF b = 0 THEN a ELSE GCD(b, a % b)

Zero == [num |-> 0, den |-> 1]

Ratio(n, d) ==
    IF d = 0 THEN [num |-> IF n > 0 THEN 1 ELSE 0, den |-> 0]
    ELSE LET g == GCD(n, d) IN [num |-> n \div g, den |-> d \div g]

usedPercent_noGuard(total, used) == Ratio(used * 100, total)

usedPercent_intDivision(total, used) ==
    IF total > 0 THEN Ratio((used \div total) * 100, 1) ELSE Zero

usedPercent(total, used) ==
    IF total > 0 THEN Ratio(used * 100, total) ELSE Zero

getDiskUsage(path, oserr, v) ==
    IF HasNUL(path)
    THEN [path |-> path, total |-> 0, free |-> 0, available |-> 0, err |-> EINVAL, queries |-> 0]
    ELSE IF oserr # NoErr
    THEN [path |-> path, total |-> 0, free |-> 0, available |-> 0, err |-> oserr, queries |-> 1]
    ELSE [path |-> path, total |-> v.total, free |-> v.free, available |-> v.available,
          err |-> NoErr, queries |-> 1]

Locals(q, flag) ==
    [path |-> q.path, total |-> q.total, free |-> q.free, available |-> q.available,
     err |-> q.err, queries |-> q.queries, afterClose |-> flag]

NoLoc ==
    [path |-> <<>>, total |-> 0, free |-> 0, available |-> 0, err |-> NoErr, queries |-> 0,
     afterClose |-> FALSE]

NoReading ==
    [path |-> <<>>, total_bytes |-> 0, free_bytes |-> 0, available_bytes |-> 0,
     used_bytes |-> 0, used_percent |-> Zero]

NoRet == [op |-> "none", hasMap |-> FALSE, reading |-> NoReading, err |-> NoErr, name |-> ""]

ReadingsResult_zeroMapOnError(q) ==
    IF q.err # NoErr
    THEN [op |-> "Readings", hasMap |-> TRUE,
          reading |-> [NoReading EXCEPT !.path = q.path], err |-> q.err, name |-> ""]
    ELSE LET used == Sub64(q.total, q.free)
         IN  [op |-> "Readings", hasMap |-> TRUE,
              reading |-> [path |-> q.path, total_bytes |-> q.total, free_bytes |-> q.free,
                           available_bytes |-> q.available, used_bytes |-> used,
                           used_percent |-> usedPercent(q.total, used)],
              err |-> NoErr, name |-> ""]

ReadingsResult(q) ==
    IF q.err # NoErr
    THEN [op |-> "Readings", hasMap |-> FALSE, reading |-> NoReading, err |-> q.err, name |-> ""]
    ELSE LET used == Sub64(q.total, q.free)
         IN  [op |-> "Readings", hasMap |-> TRUE,
              reading |-> [path |-> q.path, total_bytes |-> q.total, free_bytes |-> q.free,
                           available_bytes |-> q.available, used_bytes |-> used,
                           used_percent |-> usedPercent(q.total, used)],
              err |-> NoErr, name |-> ""]

Volumes ==
    {[total |-> t, free |-> f, available |-> a] :
        t \in ByteCounts, f \in ByteCounts, a \in AvailCounts}

\* ------------------------------------------------------------------- state
Init ==
    /\ phase = "raw"
    /\ cfgPath \in ConfigPaths
    /\ sName = ""
    /\ cancelled = FALSE
    /\ vol \in Volumes
    /\ pc = [c \in Callers |-> "idle"]
    /\ loc = [c \in Callers |-> NoLoc]
    /\ ret = [c \in Callers |-> NoRet]
    /\ nhist = <<>>

Live == {"built", "storing"}

LoadedPaths == IF phase = "storing" THEN {cfgPath, defaultDiskPath} ELSE {cfgPath}

\* ----------------------------------------------------------------- actions
Validate ==
    \/ /\ phase \in {"raw", "validated"}
       /\ phase' = "validated"
       /\ cfgPath' = IF cfgPath = <<>> THEN defaultDiskPath ELSE cfgPath
       /\ UNCHANGED <<sName, cancelled, vol, pc, loc, ret, nhist>>
    \/ /\ phase = "built"
       /\ phase' = IF cfgPath = <<>> THEN "storing" ELSE "built"
       /\ UNCHANGED <<cfgPath, sName, cancelled, vol, pc, loc, ret, nhist>>
    \/ /\ phase = "storing"
       /\ phase' = "built"
       /\ cfgPath' = defaultDiskPath
       /\ UNCHANGED <<sName, cancelled, vol, pc, loc, ret, nhist>>

NewDisk(name) ==
    /\ phase \in {"raw", "validated"}
    /\ phase' = "built"
    /\ sName' = name
    /\ cancelled' = FALSE
    /\ UNCHANGED <<cfgPath, vol, pc, loc, ret, nhist>>

Name(c) ==
    /\ phase \in Live
    /\ pc[c] = "idle"
    /\ ret' = [ret EXCEPT ![c] = [NoRet EXCEPT !.op = "Name", !.name = sName]]
    /\ UNCHANGED <<phase, cfgPath, sName, cancelled, vol, pc, loc, nhist>>

ReadingsLoad(c) ==
    /\ phase \in Live
    /\ pc[c] = "idle"
    /\ \/ /\ \E p \in LoadedPaths :
                loc' = [loc EXCEPT ![c] =
                           [NoLoc EXCEPT !.path = normalizeDiskPath(p),
                                         !.afterClose = cancelled]]
          /\ pc' = [pc EXCEPT ![c] = "loaded"]
          /\ UNCHANGED phase
       \/ /\ phase = "storing"
          /\ phase' = "crashed"
          /\ pc' = [pc EXCEPT ![c] = "panicked"]
          /\ UNCHANGED loc
    /\ ret' = [ret EXCEPT ![c] = NoRet]
    /\ UNCHANGED <<cfgPath, sName, cancelled, vol, nhist>>

ReadingsQuery(c) ==
    /\ phase \in Live
    /\ pc[c] = "loaded"
    /\ \E oserr \in OsErrors \cup {NoErr} :
          loc' = [loc EXCEPT ![c] = Locals(getDiskUsage(loc[c].path, oserr, vol), FALSE)]
    /\ pc' = [pc EXCEPT ![c] = "queried"]
    /\ UNCHANGED <<phase, cfgPath, sName, cancelled, vol, ret, nhist>>

ReadingsReturn_rereadFree(c) ==
    /\ phase \in Live
    /\ pc[c] = "queried"
    /\ ret' = [ret EXCEPT ![c] =
                  LET r == ReadingsResult(loc[c])
                  IN  IF r.hasMap THEN [r EXCEPT !.reading.free_bytes = vol.free] ELSE r]
    /\ loc' = [loc EXCEPT ![c] = NoLoc]
    /\ pc' = [pc EXCEPT ![c] = "idle"]
    /\ UNCHANGED <<phase, cfgPath, sName, cancelled, vol, nhist>>

ReadingsReturn(c) ==
    /\ phase \in Live
    /\ pc[c] = "queried"
    /\ ret' = [ret EXCEPT ![c] = ReadingsResult(loc[c])]
    /\ loc' = [loc EXCEPT ![c] = NoLoc]
    /\ pc' = [pc EXCEPT ![c] = "idle"]
    /\ UNCHANGED <<phase, cfgPath, sName, cancelled, vol, nhist>>

DoCommand_notImplementedYet(c, cmd) ==
    /\ phase \in Live
    /\ pc[c] = "idle"
    /\ ret' = [ret EXCEPT ![c] = [NoRet EXCEPT !.op = "DoCommand", !.err = "not implemented"]]
    /\ UNCHANGED <<phase, cfgPath, sName, cancelled, vol, pc, loc, nhist>>

DoCommand(c, cmd) ==
    /\ phase \in Live
    /\ pc[c] = "idle"
    /\ ret' = [ret EXCEPT ![c] = [NoRet EXCEPT !.op = "DoCommand", !.err = errUnimplemented]]
    /\ UNCHANGED <<phase, cfgPath, sName, cancelled, vol, pc, loc, nhist>>

Close_clearsConfig(c) ==
    /\ phase \in Live
    /\ pc[c] = "idle"
    /\ cancelled' = TRUE
    /\ cfgPath' = <<>>
    /\ ret' = [ret EXCEPT ![c] = [NoRet EXCEPT !.op = "Close"]]
    /\ UNCHANGED <<phase, sName, vol, pc, loc, nhist>>

Close(c) ==
    /\ phase \in Live
    /\ pc[c] = "idle"
    /\ cancelled' = TRUE
    /\ ret' = [ret EXCEPT ![c] = [NoRet EXCEPT !.op = "Close"]]
    /\ UNCHANGED <<phase, cfgPath, sName, vol, pc, loc, nhist>>

VolumeChange ==
    /\ \/ \E x \in ByteCounts \ {vol.total} : vol' = [vol EXCEPT !.total = x]
       \/ \E x \in ByteCounts \ {vol.free} : vol' = [vol EXCEPT !.free = x]
       \/ \E x \in AvailCounts \ {vol.available} : vol' = [vol EXCEPT !.available = x]
    /\ UNCHANGED <<phase, cfgPath, sName, cancelled, pc, loc, ret, nhist>>

Next ==
    \/ Validate
    \/ \E n \in Names : NewDisk(n)
    \/ \E c \in Callers : Name(c)
    \/ \E c \in Callers : ReadingsLoad(c)
    \/ \E c \in Callers : ReadingsQuery(c)
    \/ \E c \in Callers : ReadingsReturn(c)
    \/ \E c \in Callers, cmd \in Commands : DoCommand(c, cmd)
    \/ \E c \in Callers : Close(c)
    \/ VolumeChange

Spec == Init /\ [][Next]_vars

\* ------------------------------------------- the normalizer on every path
NormInit ==
    /\ phase = "raw"
    /\ cfgPath = <<>>
    /\ sName = ""
    /\ cancelled = FALSE
    /\ vol = [total |-> 0, free |-> 0, available |-> 0]
    /\ pc = [c \in Callers |-> "idle"]
    /\ loc = [c \in Callers |-> NoLoc]
    /\ ret = [c \in Callers |-> NoRet]
    /\ \E p \in Paths : nhist = <<p>>

Normalize ==
    /\ Len(nhist) < 3
    /\ nhist' = Append(nhist, normalizeDiskPath(nhist[Len(nhist)]))
    /\ UNCHANGED <<phase, cfgPath, sName, cancelled, vol, pc, loc, ret>>

NormNext == Normalize

NormSpec == NormInit /\ [][NormNext]_vars

\* ------------------------------------------------------------- properties
IsReading(r) == r.op = "Readings" /\ r.err = NoErr

\* C1: when the OS free-space query of a Readings call fails, the call
\* returns that very error and a nil map (no byte counts), having issued
\* exactly one OS query, on the path it resolved: the normalization of the
\* path it loaded from the Config.
C1_OsFailureReturnsErrorOnly ==
    [][\A c \in Callers :
          /\ (pc[c] = "queried" /\ pc'[c] = "idle" /\ loc[c].err \in OsErrors) =>
                /\ ret'[c].op = "Readings"
                /\ ret'[c].err = loc[c].err
                /\ ret'[c].hasMap = FALSE
                /\ ret'[c].reading = NoReading
                /\ loc[c].queries = 1
          /\ (pc[c] = "loaded" /\ pc'[c] = "queried" /\ loc'[c].err \in OsErrors) =>
                /\ loc'[c].queries = 1
                /\ loc'[c].path = loc[c].path
          /\ (pc[c] = "idle" /\ pc'[c] = "loaded") =>
                loc'[c].path \in {normalizeDiskPath(p) : p \in LoadedPaths}]_vars

C1_Witness ==
    \E c \in Callers :
        ret[c].op = "Readings" /\ ret[c].err \in OsErrors /\ ~ret[c].hasMap

\* C2: a successful reading whose total is 0 has used_percent exactly 0.0
\* (a finite value: no division by zero), whatever free and available are.
C2_ZeroTotalZeroPercent ==
    \A c \in Callers :
        (IsReading(ret[c]) /\ ret[c].reading.total_bytes = 0) =>
            ret[c].hasMap /\ ret[c].reading.used_percent = Zero

C2_Witness ==
    \E c \in Callers :
        /\ IsReading(ret[c])
        /\ ret[c].reading.total_bytes = 0
        /\ ret[c].reading.free_bytes > 0
        /\ ret[c].reading.available_bytes > 0

\* C3: every successful reading, also one of two concurrent calls taken
\* while the volume's free space changes, satisfies used_bytes + free_bytes
\* == total_bytes over its own fields (== and + as the program evaluates
\* them, on unsigned words).
C3_SnapshotConsistent ==
    \A c \in Callers :
        IsReading(ret[c]) =>
            Add64(ret[c].reading.used_bytes, ret[c].reading.free_bytes)
                = ret[c].reading.total_bytes

C3_Witness ==
    \E c, d \in Callers :
        /\ c # d
        /\ IsReading(ret[c])
        /\ pc[d] = "queried" /\ loc[d].err = NoErr
        /\ loc[d].free # ret[c].reading.free_bytes
        /\ vol.free # loc[d].free
        /\ vol.free # ret[c].reading.free_bytes

RECURSIVE RuneCount(_)
RuneCount(p) ==
    IF p = <<>> THEN 0
    ELSE IF Len(p) >= 2 /\ p[1] = "xC3" /\ p[2] = "xA9"
         THEN 1 + RuneCount(SubSeq(p, 3, Len(p)))
         ELSE 1 + RuneCount(Tail(p))

\* C4 as stated, lengths counted in characters: normalizeDiskPath appends one
\* backslash to every 2-character input whose second character is ':',
\* appends ":\" to every 1-character input, returns every other input
\* unchanged, and applied to its own output changes nothing.
C4_NormalizeByCharacters ==
    /\ Len(nhist) >= 2 =>
          LET p == nhist[1]
              q == nhist[2]
          IN  /\ (RuneCount(p) = 2 /\ p[Len(p)] = ":") => q = Append(p, "\\")
              /\ RuneCount(p) = 1 => q = p \o <<":", "\\">>
              /\ (RuneCount(p) > 2 \/ (RuneCount(p) = 2 /\ p[Len(p)] # ":")) => q = p
    /\ Len(nhist) = 3 => nhist[3] = nhist[2]

\* C4 amended, lengths counted in bytes: normalizeDiskPath appends one
\* backslash to every 2-byte input whose second byte is ':', appends ":\" to
\* every 1-byte input, returns every other input unchanged (also a single
\* character of two bytes), and applied to its own output changes nothing.
C4_NormalizeCases ==
    /\ Len(nhist) >= 2 =>
          LET p == nhist[1]
              q == nhist[2]
          IN  /\ (Len(p) = 2 /\ p[2] = ":") => q = <<p[1], ":", "\\">>
              /\ Len(p) = 1 => q = <<p[1], ":", "\\">>
              /\ (Len(p) > 2 \/ (Len(p) = 2 /\ p[2] # ":")) => q = p
              /\ p = <<"xC3", "xA9">> => q = p
    /\ Len(nhist) = 3 => nhist[3] = nhist[2]

C4_Witness ==
    /\ Len(nhist) = 3
    /\ nhist[1] = <<"C">>
    /\ nhist[3] = <<"C", ":", "\\">>

\* C5: a sensor built from a Config whose Path is empty, validated or not,
\* queries the OS with the default root and never with the empty string.
C5_EmptyPathQueriesDefaultRoot ==
    \A c \in Callers :
        (pc[c] = "queried" /\ loc[c].queries = 1) =>
            /\ loc[c].path # <<>>
            /\ cfgPath \in {<<>>, defaultDiskPath} => loc[c].path = defaultDiskPath

\* C6: DoCommand returns no result and the fixed "unimplemented" error for
\* every command in every sensor state, and changes no sensor state.
C6_DoCommandAlwaysUnimplemented ==
    [][\A c \in Callers :
          ret'[c].op = "DoCommand" =>
              /\ ret'[c].hasMap = FALSE
              /\ ret'[c].err = errUnimplemented
              /\ ret'[c] # ret[c] =>
                    UNCHANGED <<phase, cfgPath, sName, cancelled, vol, pc, loc>>]_vars

C6_Witness ==
    \E c, d \in Callers :
        /\ c # d
        /\ cancelled
        /\ ret[c].op = "DoCommand" /\ ret[c].err = errUnimplemented
        /\ IsReading(ret[d])

\* C7 as stated: a reading with free > total has a negative used_bytes and a
\* negative used_percent.
C7_NegativeUsed ==
    \A c \in Callers :
        (IsReading(ret[c]) /\ ret[c].reading.free_bytes > ret[c].reading.total_bytes) =>
            /\ ret[c].reading.used_bytes < 0
            /\ ret[c].reading.used_percent.num < 0

\* C7 amended: a reading with free > total is not clamped: used_bytes is the
\* unsigned wrap-around of total - free (total - free + 2^width, above
\* total), and used_percent is not negative: 0.0 when total is 0, at least
\* 100 otherwise.
C7_WrappedUsed ==
    \A c \in Callers :
        LET r == ret[c].reading
        IN  (IsReading(ret[c]) /\ r.free_bytes > r.total_bytes) =>
                /\ r.used_bytes = r.total_bytes - r.free_bytes + Word
                /\ r.used_bytes > r.total_bytes
                /\ r.used_percent.num >= 0 /\ r.used_percent.den > 0
                /\ r.total_bytes = 0 => r.used_percent = Zero
                /\ r.total_bytes > 0 => r.used_percent.num >= 100 * r.used_percent.den

C7_Witness ==
    \E c \in Callers :
        /\ IsReading(ret[c])
        /\ ret[c].reading.total_bytes > 0
        /\ ret[c].reading.free_bytes > ret[c].reading.total_bytes
        /\ ret[c].reading.used_bytes > ret[c].reading.free_bytes

\* C8 as stated: in a successful reading used_percent is 0.0 exactly when
\* total is 0.
C8_ZeroPercentIffZeroTotal ==
    \A c \in Callers :
        IsReading(ret[c]) =>
            (ret[c].reading.used_percent = Zero <=> ret[c].reading.total_bytes = 0)

\* C8 amended: in a successful reading used_percent is 0.0 exactly when
\* total is 0 or free equals total (nothing is used).
C8_ZeroPercentIffNothingUsed ==
    \A c \in Callers :
        LET r == ret[c].reading
        IN  IsReading(ret[c]) =>
                (r.used_percent = Zero <=>
                    (r.total_bytes = 0 \/ r.free_bytes = r.total_bytes))

C8_Witness ==
    \E c \in Callers :
        /\ IsReading(ret[c])
        /\ ret[c].reading.total_bytes > 0
        /\ ret[c].reading.free_bytes = ret[c].reading.total_bytes
        /\ ret[c].reading.used_percent = Zero

\* C9: a Readings call begun after Close has cancelled the sensor's context
\* issues no OS free-space query.
C9_NoQueryAfterClose ==
    [][\A c \in Callers :
          (pc[c] = "loaded" /\ loc[c].afterClose /\ pc'[c] = "queried") =>
              loc'[c].queries = 0]_vars

\* C10: once the sensor is built, no step of Readings, DoCommand, Name or
\* Close changes the configured path; the only write to it is Validate's, of
\* the default root over an empty path; every Readings call loads the
\* configured path, queries its normalization and reports the path it queried.
C10_ConfigReadOnly ==
    [][(phase \in Live) =>
          /\ (pc' # pc \/ ret' # ret \/ loc' # loc \/ cancelled' # cancelled) =>
                cfgPath' = cfgPath
          /\ cfgPath' # cfgPath =>
                (phase = "storing" /\ cfgPath = <<>> /\ cfgPath' = defaultDiskPath)
          /\ \A c \in Callers :
                /\ (phase = "built" /\ pc[c] = "idle" /\ pc'[c] = "loaded") =>
                      loc'[c].path = normalizeDiskPath(cfgPath)
                /\ (pc[c] = "loaded" /\ pc'[c] = "queried") =>
                      loc'[c].path = loc[c].path
                /\ (pc[c] = "queried" /\ pc'[c] = "idle" /\ ret'[c].hasMap) =>
                      ret'[c].reading.path = loc[c].path]_vars

C10_Witness ==
    \E c, d \in Callers :
        /\ c # d
        /\ cancelled
        /\ cfgPath = <<"C">>
        /\ IsReading(ret[c]) /\ ret[c].reading.path = defaultDiskPath
        /\ pc[d] = "queried" /\ loc[d].path = defaultDiskPath

=============================================================================
